---- MODULE Spec2Model ----
(***************************************************************************)
(* Model of pymon_game.py: the world graph (Location.connect), the         *)
(* energy-constrained movement of a Pymon, item pick-up and use, the       *)
(* rock-paper-scissors challenge and the switch of the primary Pymon.      *)
(*                                                                         *)
(* A step of the game specification is one command of Operation.handle_menu*)
(* (or one answer to the prompt of the battle loop), with every call the   *)
(* handler makes.  A step of the world specification is one call of        *)
(* Location.connect.                                                       *)
(***************************************************************************)
EXTENDS Integers, Sequences, FiniteSets, TLC

VARIABLES
    doors,              \* Location.doors: location -> (direction -> location or None)
    nconnects,          \* number of Location.connect calls made so far
    creatures,          \* Location.creatures: location -> list of objects
    items,              \* Location.items: location -> list of item instances
    creature_location,  \* Creature.location of every base creature
    current_pymon,      \* Operation.current_pymon
    current_location,   \* Pymon.current_location
    energy,             \* Pymon.energy
    inventory,          \* Pymon._inventory
    pets,               \* Pymon.pets
    track_moves,        \* Pymon.track_moves
    immunity,           \* Pymon.immunity
    description,        \* Pymon.description
    battles,            \* Pymon.battle_stats.battles
    pc,                 \* where the session is: "menu", "battle" (at the prompt
                        \* of the battle loop), "recorded" (between line 379
                        \* and line 381 of Challenge), "over" (sys.exit of
                        \* Challenge) or "exited" (sys.exit of menu command 8)
    match,              \* locals of the running Challenge: opponent, win, loss, draw
    nmoves,             \* history: successful moves made by each Pymon
    energy_before,      \* history: the challenger's energy when the running
                        \* Challenge was called, 0 outside a battle
    last                \* history: the last command and its outcome

vars == <<doors, nconnects, creatures, items, creature_location, current_pymon,
          current_location, energy, inventory, pets, track_moves, immunity,
          description, battles, pc, match, nmoves, energy_before, last>>

game == <<doors, creatures, items, creature_location, current_pymon,
          current_location, energy, inventory, pets, track_moves, immunity,
          description, battles, pc, match>>

-----------------------------------------------------------------------------
(* Bounds of the model *)

MaxConnects == 3        \* connect calls explored by the world specification
MaxMoves == 4           \* successful moves explored in one session
MaxDraws == 1           \* tied rounds explored in one session
MaxFairMoves == 2       \* successful moves explored in one session under fairness
MaxStepMoves == 2       \* successful moves explored in one session, statement by statement
MaxApiMoves == 1        \* successful moves explored in one session with set_energy calls

-----------------------------------------------------------------------------
(* Python values and list operations *)

None == "None"

InSeq(x, s) == \E i \in DOMAIN s : s[i] = x

\* index of the first occurrence of x in s, 0 when absent
FirstIndex(x, s) ==
    IF InSeq(x, s) THEN CHOOSE i \in DOMAIN s : s[i] = x /\ \A j \in 1..(i-1) : s[j] # x
    ELSE 0

\* s without its element at position i
DropAt(s, i) == [j \in 1..(Len(s)-1) |-> IF j < i THEN s[j] ELSE s[j+1]]

\* list.remove(x): removes the first occurrence
ListRemove(s, x) == DropAt(s, FirstIndex(x, s))

Count(x, s) == Cardinality({i \in DOMAIN s : s[i] = x})

\* str.lower() on a string held as its sequence of code points, after the
\* Unicode tables of the interpreter. LowerRuns lists the code points with a
\* one-character lowercase form as <<first, last, step, offset>>: every
\* step-th code point from first to last lowers to itself plus offset.
LowerRuns ==
    {<<65, 90, 1, 32>>, <<192, 214, 1, 32>>, <<216, 222, 1, 32>>,
     <<256, 302, 2, 1>>, <<306, 310, 2, 1>>, <<313, 327, 2, 1>>,
     <<330, 374, 2, 1>>, <<376, 376, 1, -121>>, <<377, 381, 2, 1>>,
     <<385, 385, 1, 210>>, <<386, 388, 2, 1>>, <<390, 390, 1, 206>>,
     <<391, 391, 1, 1>>, <<393, 394, 1, 205>>, <<395, 395, 1, 1>>,
     <<398, 398, 1, 79>>, <<399, 399, 1, 202>>, <<400, 400, 1, 203>>,
     <<401, 401, 1, 1>>, <<403, 403, 1, 205>>, <<404, 404, 1, 207>>,
     <<406, 406, 1, 211>>, <<407, 407, 1, 209>>, <<408, 408, 1, 1>>,
     <<412, 412, 1, 211>>, <<413, 413, 1, 213>>, <<415, 415, 1, 214>>,
     <<416, 420, 2, 1>>, <<422, 422, 1, 218>>, <<423, 423, 1, 1>>,
     <<425, 425, 1, 218>>, <<428, 428, 1, 1>>, <<430, 430, 1, 218>>,
     <<431, 431, 1, 1>>, <<433, 434, 1, 217>>, <<435, 437, 2, 1>>,
     <<439, 439, 1, 219>>, <<440, 440, 1, 1>>, <<444, 444, 1, 1>>,
     <<452, 452, 1, 2>>, <<453, 453, 1, 1>>, <<455, 455, 1, 2>>,
     <<456, 456, 1, 1>>, <<458, 458, 1, 2>>, <<459, 475, 2, 1>>,
     <<478, 494, 2, 1>>, <<497, 497, 1, 2>>, <<498, 500, 2, 1>>,
     <<502, 502, 1, -97>>, <<503, 503, 1, -56>>, <<504, 542, 2, 1>>,
     <<544, 544, 1, -130>>, <<546, 562, 2, 1>>, <<570, 570, 1, 10795>>,
     <<571, 571, 1, 1>>, <<573, 573, 1, -163>>, <<574, 574, 1, 10792>>,
     <<577, 577, 1, 1>>, <<579, 579, 1, -195>>, <<580, 580, 1, 69>>,
     <<581, 581, 1, 71>>, <<582, 590, 2, 1>>, <<880, 882, 2, 1>>,
     <<886, 886, 1, 1>>, <<895, 895, 1, 116>>, <<902, 902, 1, 38>>,
     <<904, 906, 1, 37>>, <<908, 908, 1, 64>>, <<910, 911, 1, 63>>,
     <<913, 929, 1, 32>>, <<931, 939, 1, 32>>, <<975, 975, 1, 8>>,
     <<984, 1006, 2, 1>>, <<1012, 1012, 1, -60>>, <<1015, 1015, 1, 1>>,
     <<1017, 1017, 1, -7>>, <<1018, 1018, 1, 1>>, <<1021, 1023, 1, -130>>,
     <<1024, 1039, 1, 80>>, <<1040, 1071, 1, 32>>, <<1120, 1152, 2, 1>>,
     <<1162, 1214, 2, 1>>, <<1216, 1216, 1, 15>>, <<1217, 1229, 2, 1>>,
     <<1232, 1326, 2, 1>>, <<1329, 1366, 1, 48>>, <<4256, 4293, 1, 7264>>,
     <<4295, 4295, 1, 7264>>, <<4301, 4301, 1, 7264>>,
     <<5024, 5103, 1, 38864>>, <<5104, 5109, 1, 8>>, <<7312, 7354, 1, -3008>>,
     <<7357, 7359, 1, -3008>>, <<7680, 7828, 2, 1>>, <<7838, 7838, 1, -7615>>,
     <<7840, 7934, 2, 1>>, <<7944, 7951, 1, -8>>, <<7960, 7965, 1, -8>>,
     <<7976, 7983, 1, -8>>, <<7992, 7999, 1, -8>>, <<8008, 8013, 1, -8>>,
     <<8025, 8031, 2, -8>>, <<8040, 8047, 1, -8>>, <<8072, 8079, 1, -8>>,
     <<8088, 8095, 1, -8>>, <<8104, 8111, 1, -8>>, <<8120, 8121, 1, -8>>,
     <<8122, 8123, 1, -74>>, <<8124, 8124, 1, -9>>, <<8136, 8139, 1, -86>>,
     <<8140, 8140, 1, -9>>, <<8152, 8153, 1, -8>>, <<8154, 8155, 1, -100>>,
     <<8168, 8169, 1, -8>>, <<8170, 8171, 1, -112>>, <<8172, 8172, 1, -7>>,
     <<8184, 8185, 1, -128>>, <<8186, 8187, 1, -126>>, <<8188, 8188, 1, -9>>,
     <<8486, 8486, 1, -7517>>, <<8490, 8490, 1, -8383>>,
     <<8491, 8491, 1, -8262>>, <<8498, 8498, 1, 28>>, <<8544, 8559, 1, 16>>,
     <<8579, 8579, 1, 1>>, <<9398, 9423, 1, 26>>, <<11264, 11311, 1, 48>>,
     <<11360, 11360, 1, 1>>, <<11362, 11362, 1, -10743>>,
     <<11363, 11363, 1, -3814>>, <<11364, 11364, 1, -10727>>,
     <<11367, 11371, 2, 1>>, <<11373, 11373, 1, -10780>>,
     <<11374, 11374, 1, -10749>>, <<11375, 11375, 1, -10783>>,
     <<11376, 11376, 1, -10782>>, <<11378, 11378, 1, 1>>,
     <<11381, 11381, 1, 1>>, <<11390, 11391, 1, -10815>>,
     <<11392, 11490, 2, 1>>, <<11499, 11501, 2, 1>>, <<11506, 11506, 1, 1>>,
     <<42560, 42604, 2, 1>>, <<42624, 42650, 2, 1>>, <<42786, 42798, 2, 1>>,
     <<42802, 42862, 2, 1>>, <<42873, 42875, 2, 1>>,
     <<42877, 42877, 1, -35332>>, <<42878, 42886, 2, 1>>,
     <<42891, 42891, 1, 1>>, <<42893, 42893, 1, -42280>>,
     <<42896, 42898, 2, 1>>, <<42902, 42920, 2, 1>>,
     <<42922, 42922, 1, -42308>>, <<42923, 42923, 1, -42319>>,
     <<42924, 42924, 1, -42315>>, <<42925, 42925, 1, -42305>>,
     <<42926, 42926, 1, -42308>>, <<42928, 42928, 1, -42258>>,
     <<42929, 42929, 1, -42282>>, <<42930, 42930, 1, -42261>>,
     <<42931, 42931, 1, 928>>, <<42932, 42946, 2, 1>>,
     <<42948, 42948, 1, -48>>, <<42949, 42949, 1, -42307>>,
     <<42950, 42950, 1, -35384>>, <<42951, 42953, 2, 1>>,
     <<42960, 42960, 1, 1>>, <<42966, 42968, 2, 1>>, <<42997, 42997, 1, 1>>,
     <<65313, 65338, 1, 32>>, <<66560, 66599, 1, 40>>,
     <<66736, 66771, 1, 40>>, <<66928, 66938, 1, 39>>,
     <<66940, 66954, 1, 39>>, <<66956, 66962, 1, 39>>,
     <<66964, 66965, 1, 39>>, <<68736, 68786, 1, 64>>,
     <<71840, 71871, 1, 32>>, <<93760, 93791, 1, 32>>,
     <<125184, 125217, 1, 34>>}

\* code points with the Cased property that are not Case_Ignorable, and code
\* points with the Case_Ignorable property, as <<first, last>>
CasedRuns ==
    {<<65, 90>>, <<97, 122>>, <<170, 170>>, <<181, 181>>, <<186, 186>>,
     <<192, 214>>, <<216, 246>>, <<248, 442>>, <<444, 447>>, <<452, 659>>,
     <<661, 687>>, <<880, 883>>, <<886, 887>>, <<891, 893>>, <<895, 895>>,
     <<902, 902>>, <<904, 906>>, <<908, 908>>, <<910, 929>>, <<931, 1013>>,
     <<1015, 1153>>, <<1162, 1327>>, <<1329, 1366>>, <<1376, 1416>>,
     <<4256, 4293>>, <<4295, 4295>>, <<4301, 4301>>, <<4304, 4346>>,
     <<4349, 4351>>, <<5024, 5109>>, <<5112, 5117>>, <<7296, 7304>>,
     <<7312, 7354>>, <<7357, 7359>>, <<7424, 7467>>, <<7531, 7543>>,
     <<7545, 7578>>, <<7680, 7957>>, <<7960, 7965>>, <<7968, 8005>>,
     <<8008, 8013>>, <<8016, 8023>>, <<8025, 8025>>, <<8027, 8027>>,
     <<8029, 8029>>, <<8031, 8061>>, <<8064, 8116>>, <<8118, 8124>>,
     <<8126, 8126>>, <<8130, 8132>>, <<8134, 8140>>, <<8144, 8147>>,
     <<8150, 8155>>, <<8160, 8172>>, <<8178, 8180>>, <<8182, 8188>>,
     <<8450, 8450>>, <<8455, 8455>>, <<8458, 8467>>, <<8469, 8469>>,
     <<8473, 8477>>, <<8484, 8484>>, <<8486, 8486>>, <<8488, 8488>>,
     <<8490, 8493>>, <<8495, 8500>>, <<8505, 8505>>, <<8508, 8511>>,
     <<8517, 8521>>, <<8526, 8526>>, <<8544, 8575>>, <<8579, 8580>>,
     <<9398, 9449>>, <<11264, 11387>>, <<11390, 11492>>, <<11499, 11502>>,
     <<11506, 11507>>, <<11520, 11557>>, <<11559, 11559>>, <<11565, 11565>>,
     <<42560, 42605>>, <<42624, 42651>>, <<42786, 42863>>, <<42865, 42887>>,
     <<42891, 42894>>, <<42896, 42954>>, <<42960, 42961>>, <<42963, 42963>>,
     <<42965, 42969>>, <<42997, 42998>>, <<43002, 43002>>, <<43824, 43866>>,
     <<43872, 43880>>, <<43888, 43967>>, <<64256, 64262>>, <<64275, 64279>>,
     <<65313, 65338>>, <<65345, 65370>>, <<66560, 66639>>, <<66736, 66771>>,
     <<66776, 66811>>, <<66928, 66938>>, <<66940, 66954>>, <<66956, 66962>>,
     <<66964, 66965>>, <<66967, 66977>>, <<66979, 66993>>, <<66995, 67001>>,
     <<67003, 67004>>, <<68736, 68786>>, <<68800, 68850>>, <<71840, 71903>>,
     <<93760, 93823>>, <<119808, 119892>>, <<119894, 119964>>,
     <<119966, 119967>>, <<119970, 119970>>, <<119973, 119974>>,
     <<119977, 119980>>, <<119982, 119993>>, <<119995, 119995>>,
     <<119997, 120003>>, <<120005, 120069>>, <<120071, 120074>>,
     <<120077, 120084>>, <<120086, 120092>>, <<120094, 120121>>,
     <<120123, 120126>>, <<120128, 120132>>, <<120134, 120134>>,
     <<120138, 120144>>, <<120146, 120485>>, <<120488, 120512>>,
     <<120514, 120538>>, <<120540, 120570>>, <<120572, 120596>>,
     <<120598, 120628>>, <<120630, 120654>>, <<120656, 120686>>,
     <<120688, 120712>>, <<120714, 120744>>, <<120746, 120770>>,
     <<120772, 120779>>, <<122624, 122633>>, <<122635, 122654>>,
     <<125184, 125251>>, <<127280, 127305>>, <<127312, 127337>>,
     <<127344, 127369>>}

IgnorableRuns ==
    {<<39, 39>>, <<46, 46>>, <<58, 58>>, <<94, 94>>, <<96, 96>>, <<168, 168>>,
     <<173, 173>>, <<175, 175>>, <<180, 180>>, <<183, 184>>, <<688, 879>>,
     <<884, 885>>, <<890, 890>>, <<900, 901>>, <<903, 903>>, <<1155, 1161>>,
     <<1369, 1369>>, <<1375, 1375>>, <<1425, 1469>>, <<1471, 1471>>,
     <<1473, 1474>>, <<1476, 1477>>, <<1479, 1479>>, <<1524, 1524>>,
     <<1536, 1541>>, <<1552, 1562>>, <<1564, 1564>>, <<1600, 1600>>,
     <<1611, 1631>>, <<1648, 1648>>, <<1750, 1757>>, <<1759, 1768>>,
     <<1770, 1773>>, <<1807, 1807>>, <<1809, 1809>>, <<1840, 1866>>,
     <<1958, 1968>>, <<2027, 2037>>, <<2042, 2042>>, <<2045, 2045>>,
     <<2070, 2093>>, <<2137, 2139>>, <<2184, 2184>>, <<2192, 2193>>,
     <<2200, 2207>>, <<2249, 2306>>, <<2362, 2362>>, <<2364, 2364>>,
     <<2369, 2376>>, <<2381, 2381>>, <<2385, 2391>>, <<2402, 2403>>,
     <<2417, 2417>>, <<2433, 2433>>, <<2492, 2492>>, <<2497, 2500>>,
     <<2509, 2509>>, <<2530, 2531>>, <<2558, 2558>>, <<2561, 2562>>,
     <<2620, 2620>>, <<2625, 2626>>, <<2631, 2632>>, <<2635, 2637>>,
     <<2641, 2641>>, <<2672, 2673>>, <<2677, 2677>>, <<2689, 2690>>,
     <<2748, 2748>>, <<2753, 2757>>, <<2759, 2760>>, <<2765, 2765>>,
     <<2786, 2787>>, <<2810, 2815>>, <<2817, 2817>>, <<2876, 2876>>,
     <<2879, 2879>>, <<2881, 2884>>, <<2893, 2893>>, <<2901, 2902>>,
     <<2914, 2915>>, <<2946, 2946>>, <<3008, 3008>>, <<3021, 3021>>,
     <<3072, 3072>>, <<3076, 3076>>, <<3132, 3132>>, <<3134, 3136>>,
     <<3142, 3144>>, <<3146, 3149>>, <<3157, 3158>>, <<3170, 3171>>,
     <<3201, 3201>>, <<3260, 3260>>, <<3263, 3263>>, <<3270, 3270>>,
     <<3276, 3277>>, <<3298, 3299>>, <<3328, 3329>>, <<3387, 3388>>,
     <<3393, 3396>>, <<3405, 3405>>, <<3426, 3427>>, <<3457, 3457>>,
     <<3530, 3530>>, <<3538, 3540>>, <<3542, 3542>>, <<3633, 3633>>,
     <<3636, 3642>>, <<3654, 3662>>, <<3761, 3761>>, <<3764, 3772>>,
     <<3782, 3782>>, <<3784, 3789>>, <<3864, 3865>>, <<3893, 3893>>,
     <<3895, 3895>>, <<3897, 3897>>, <<3953, 3966>>, <<3968, 3972>>,
     <<3974, 3975>>, <<3981, 3991>>, <<3993, 4028>>, <<4038, 4038>>,
     <<4141, 4144>>, <<4146, 4151>>, <<4153, 4154>>, <<4157, 4158>>,
     <<4184, 4185>>, <<4190, 4192>>, <<4209, 4212>>, <<4226, 4226>>,
     <<4229, 4230>>, <<4237, 4237>>, <<4253, 4253>>, <<4348, 4348>>,
     <<4957, 4959>>, <<5906, 5908>>, <<5938, 5939>>, <<5970, 5971>>,
     <<6002, 6003>>, <<6068, 6069>>, <<6071, 6077>>, <<6086, 6086>>,
     <<6089, 6099>>, <<6103, 6103>>, <<6109, 6109>>, <<6155, 6159>>,
     <<6211, 6211>>, <<6277, 6278>>, <<6313, 6313>>, <<6432, 6434>>,
     <<6439, 6440>>, <<6450, 6450>>, <<6457, 6459>>, <<6679, 6680>>,
     <<6683, 6683>>, <<6742, 6742>>, <<6744, 6750>>, <<6752, 6752>>,
     <<6754, 6754>>, <<6757, 6764>>, <<6771, 6780>>, <<6783, 6783>>,
     <<6823, 6823>>, <<6832, 6862>>, <<6912, 6915>>, <<6964, 6964>>,
     <<6966, 6970>>, <<6972, 6972>>, <<6978, 6978>>, <<7019, 7027>>,
     <<7040, 7041>>, <<7074, 7077>>, <<7080, 7081>>, <<7083, 7085>>,
     <<7142, 7142>>, <<7144, 7145>>, <<7149, 7149>>, <<7151, 7153>>,
     <<7212, 7219>>, <<7222, 7223>>, <<7288, 7293>>, <<7376, 7378>>,
     <<7380, 7392>>, <<7394, 7400>>, <<7405, 7405>>, <<7412, 7412>>,
     <<7416, 7417>>, <<7468, 7530>>, <<7544, 7544>>, <<7579, 7679>>,
     <<8125, 8125>>, <<8127, 8129>>, <<8141, 8143>>, <<8157, 8159>>,
     <<8173, 8175>>, <<8189, 8190>>, <<8203, 8207>>, <<8216, 8217>>,
     <<8228, 8228>>, <<8231, 8231>>, <<8234, 8238>>, <<8288, 8292>>,
     <<8294, 8303>>, <<8305, 8305>>, <<8319, 8319>>, <<8336, 8348>>,
     <<8400, 8432>>, <<11388, 11389>>, <<11503, 11505>>, <<11631, 11631>>,
     <<11647, 11647>>, <<11744, 11775>>, <<11823, 11823>>, <<12293, 12293>>,
     <<12330, 12333>>, <<12337, 12341>>, <<12347, 12347>>, <<12441, 12446>>,
     <<12540, 12542>>, <<40981, 40981>>, <<42232, 42237>>, <<42508, 42508>>,
     <<42607, 42610>>, <<42612, 42621>>, <<42623, 42623>>, <<42652, 42655>>,
     <<42736, 42737>>, <<42752, 42785>>, <<42864, 42864>>, <<42888, 42890>>,
     <<42994, 42996>>, <<43000, 43001>>, <<43010, 43010>>, <<43014, 43014>>,
     <<43019, 43019>>, <<43045, 43046>>, <<43052, 43052>>, <<43204, 43205>>,
     <<43232, 43249>>, <<43263, 43263>>, <<43302, 43309>>, <<43335, 43345>>,
     <<43392, 43394>>, <<43443, 43443>>, <<43446, 43449>>, <<43452, 43453>>,
     <<43471, 43471>>, <<43493, 43494>>, <<43561, 43566>>, <<43569, 43570>>,
     <<43573, 43574>>, <<43587, 43587>>, <<43596, 43596>>, <<43632, 43632>>,
     <<43644, 43644>>, <<43696, 43696>>, <<43698, 43700>>, <<43703, 43704>>,
     <<43710, 43711>>, <<43713, 43713>>, <<43741, 43741>>, <<43756, 43757>>,
     <<43763, 43764>>, <<43766, 43766>>, <<43867, 43871>>, <<43881, 43883>>,
     <<44005, 44005>>, <<44008, 44008>>, <<44013, 44013>>, <<64286, 64286>>,
     <<64434, 64450>>, <<65024, 65039>>, <<65043, 65043>>, <<65056, 65071>>,
     <<65106, 65106>>, <<65109, 65109>>, <<65279, 65279>>, <<65287, 65287>>,
     <<65294, 65294>>, <<65306, 65306>>, <<65342, 65342>>, <<65344, 65344>>,
     <<65392, 65392>>, <<65438, 65439>>, <<65507, 65507>>, <<65529, 65531>>,
     <<66045, 66045>>, <<66272, 66272>>, <<66422, 66426>>, <<67456, 67461>>,
     <<67463, 67504>>, <<67506, 67514>>, <<68097, 68099>>, <<68101, 68102>>,
     <<68108, 68111>>, <<68152, 68154>>, <<68159, 68159>>, <<68325, 68326>>,
     <<68900, 68903>>, <<69291, 69292>>, <<69446, 69456>>, <<69506, 69509>>,
     <<69633, 69633>>, <<69688, 69702>>, <<69744, 69744>>, <<69747, 69748>>,
     <<69759, 69761>>, <<69811, 69814>>, <<69817, 69818>>, <<69821, 69821>>,
     <<69826, 69826>>, <<69837, 69837>>, <<69888, 69890>>, <<69927, 69931>>,
     <<69933, 69940>>, <<70003, 70003>>, <<70016, 70017>>, <<70070, 70078>>,
     <<70089, 70092>>, <<70095, 70095>>, <<70191, 70193>>, <<70196, 70196>>,
     <<70198, 70199>>, <<70206, 70206>>, <<70367, 70367>>, <<70371, 70378>>,
     <<70400, 70401>>, <<70459, 70460>>, <<70464, 70464>>, <<70502, 70508>>,
     <<70512, 70516>>, <<70712, 70719>>, <<70722, 70724>>, <<70726, 70726>>,
     <<70750, 70750>>, <<70835, 70840>>, <<70842, 70842>>, <<70847, 70848>>,
     <<70850, 70851>>, <<71090, 71093>>, <<71100, 71101>>, <<71103, 71104>>,
     <<71132, 71133>>, <<71219, 71226>>, <<71229, 71229>>, <<71231, 71232>>,
     <<71339, 71339>>, <<71341, 71341>>, <<71344, 71349>>, <<71351, 71351>>,
     <<71453, 71455>>, <<71458, 71461>>, <<71463, 71467>>, <<71727, 71735>>,
     <<71737, 71738>>, <<71995, 71996>>, <<71998, 71998>>, <<72003, 72003>>,
     <<72148, 72151>>, <<72154, 72155>>, <<72160, 72160>>, <<72193, 72202>>,
     <<72243, 72248>>, <<72251, 72254>>, <<72263, 72263>>, <<72273, 72278>>,
     <<72281, 72283>>, <<72330, 72342>>, <<72344, 72345>>, <<72752, 72758>>,
     <<72760, 72765>>, <<72767, 72767>>, <<72850, 72871>>, <<72874, 72880>>,
     <<72882, 72883>>, <<72885, 72886>>, <<73009, 73014>>, <<73018, 73018>>,
     <<73020, 73021>>, <<73023, 73029>>, <<73031, 73031>>, <<73104, 73105>>,
     <<73109, 73109>>, <<73111, 73111>>, <<73459, 73460>>, <<78896, 78904>>,
     <<92912, 92916>>, <<92976, 92982>>, <<92992, 92995>>, <<94031, 94031>>,
     <<94095, 94111>>, <<94176, 94177>>, <<94179, 94180>>, <<110576, 110579>>,
     <<110581, 110587>>, <<110589, 110590>>, <<113821, 113822>>,
     <<113824, 113827>>, <<118528, 118573>>, <<118576, 118598>>,
     <<119143, 119145>>, <<119155, 119170>>, <<119173, 119179>>,
     <<119210, 119213>>, <<119362, 119364>>, <<121344, 121398>>,
     <<121403, 121452>>, <<121461, 121461>>, <<121476, 121476>>,
     <<121499, 121503>>, <<121505, 121519>>, <<122880, 122886>>,
     <<122888, 122904>>, <<122907, 122913>>, <<122915, 122916>>,
     <<122918, 122922>>, <<123184, 123197>>, <<123566, 123566>>,
     <<123628, 123631>>, <<125136, 125142>>, <<125252, 125259>>,
     <<127995, 127999>>, <<917505, 917505>>, <<917536, 917631>>,
     <<917760, 917999>>}

Cased(c) == \E r \in CasedRuns : c \in r[1]..r[2]

CaseIgnorable(c) == \E r \in IgnorableRuns : c \in r[1]..r[2]

\* the runs of LowerRuns by block of code points, for the lookup
BlockSize == 1024

LowerRunsIn ==
    [b \in 0..(1114111 \div BlockSize) |->
        {r \in LowerRuns : r[1] \div BlockSize <= b /\ b <= r[2] \div BlockSize}]

\* chr(c).lower() as a sequence of code points: U+0130 lowers to two
LowerChar(c) ==
    IF c < 128
    THEN <<IF c \in 65..90 THEN c + 32 ELSE c>>
    ELSE IF c = 304
    THEN <<105, 775>>
    ELSE LET hits == {r \in LowerRunsIn[c \div BlockSize] :
                         c \in r[1]..r[2] /\ (c - r[1]) % r[3] = 0}
         IN  IF hits = {}
             THEN <<c>>
             ELSE <<c + (CHOOSE r \in hits : TRUE)[4]>>

\* the capital sigma at position i of s is final: the nearest code point
\* before it that is not case-ignorable is cased, and the nearest one after
\* it is not
FinalSigma(s, i) ==
    LET before == {j \in 1..(i - 1) : ~CaseIgnorable(s[j])}
        after == {j \in (i + 1)..Len(s) : ~CaseIgnorable(s[j])}
    IN  /\ before # {}
        /\ Cased(s[CHOOSE j \in before : \A k \in before : k <= j])
        /\ ~(/\ after # {}
              /\ Cased(s[CHOOSE j \in after : \A k \in after : j <= k]))

RECURSIVE LowerFrom(_, _)
LowerFrom(s, i) ==
    IF i > Len(s)
    THEN <<>>
    ELSE (IF s[i] = 931 /\ FinalSigma(s, i) THEN <<962>> ELSE LowerChar(s[i]))
         \o LowerFrom(s, i + 1)

\* a string of ASCII code points lowers code point by code point
Lower(s) ==
    IF \A i \in DOMAIN s : s[i] < 128
    THEN [i \in DOMAIN s |-> IF s[i] \in 65..90 THEN s[i] + 32 ELSE s[i]]
    ELSE LowerFrom(s, 1)

-----------------------------------------------------------------------------
(* The world *)

Locations == {"Forest", "Cave", "Beach"}

cardinal == {"west", "north", "east", "south"}

opposite_directions ==
    [west |-> "east", east |-> "west", north |-> "south", south |-> "north"]

\* directions a caller may pass: the four cardinal ones and others
Directions == cardinal \cup {"up"}

\* Location.__init__ with no preset doors
FreshDoors == [d \in cardinal |-> None]

FreshWorld == [l \in Locations |-> FreshDoors]

\* dict assignment d[k] = v
DictSet(d, k, v) == [x \in (DOMAIN d) \cup {k} |-> IF x = k THEN v ELSE d[x]]

\* the slot written on another_room is skipped
connect_oneway(drs, self, direction, another_room) ==
    [drs EXCEPT ![self] = DictSet(@, direction, another_room)]

\* Location.connect(self, direction, another_room) on the door maps drs
connect(drs, self, direction, another_room) ==
    LET d1 == [drs EXCEPT ![self] = DictSet(@, direction, another_room)]
    IN  IF direction \in DOMAIN opposite_directions
        THEN [d1 EXCEPT ![another_room] =
                 DictSet(@, opposite_directions[direction], self)]
        ELSE d1

\* the world Record.import_location builds from the lines
\*   Forest,..,None,None,None,None / Cave,..,Forest,None,None,None /
\*   Beach,..,None,Cave,None,None
ImportedWorld ==
    connect(connect(FreshWorld, "Cave", "west", "Forest"), "Beach", "north", "Cave")

-----------------------------------------------------------------------------
(* Objects: creatures, Pymons and items *)

\* Operation.__init__: Pymon("Kimimon")
Kimimon == [kind |-> "pymon", nick |-> "Kimimon"]

\* rows of creatures.csv: nickname and adoptable flag
Toromon == [kind |-> "creature", nick |-> "Toromon"]
Kitimon == [kind |-> "creature", nick |-> "Kitimon"]
Sheep == [kind |-> "creature", nick |-> "Sheep"]

Creatures == {Toromon, Kitimon, Sheep}

\* Creature.description: the description column of creatures.csv
CreatureDescription(c) ==
    CASE c = Toromon -> "a bull"
      [] c = Kitimon -> "a kitten"
      [] c = Sheep -> "a sheep"

\* the default description of Pymon.__init__
DefaultDescription == "Default Pymon character"

\* Creature.adoptable; a Pymon is built with the default adoptable = False
adoptable(o) == o \in {Toromon, Kitimon}

\* the Pymon object Challenge builds from a captured creature
PetOf(c) == [kind |-> "pymon", nick |-> c.nick]

Pymons == {Kimimon} \cup {PetOf(c) : c \in {x \in Creatures : adoptable(x)}}

Objects == Creatures \cup Pymons

Nicknames == {o.nick : o \in Objects}

\* names as sequences of character codes
Name_Apple == <<65, 112, 112, 108, 101>>
Name_apple == <<97, 112, 112, 108, 101>>
Name_APPLE == <<65, 80, 80, 76, 69>>
Name_MagicPotion == <<77, 97, 103, 105, 99, 32, 80, 111, 116, 105, 111, 110>>
Name_magic_potion == <<109, 97, 103, 105, 99, 32, 112, 111, 116, 105, 111, 110>>
Name_binocular == <<98, 105, 110, 111, 99, 117, 108, 97, 114>>
Name_Stone == <<83, 116, 111, 110, 101>>
Name_stone == <<115, 116, 111, 110, 101>>

\* item instances: rows of items.csv, and the second instance Operation.setup
\* may make of a consumable one
Items == {"apple", "apple_copy", "fake_apple", "potion", "stone"}

\* Item._name
ItemName(i) ==
    CASE i = "apple" -> Name_Apple
      [] i = "apple_copy" -> Name_Apple
      [] i = "fake_apple" -> Name_apple
      [] i = "potion" -> Name_MagicPotion
      [] i = "stone" -> Name_Stone

\* Item.pick_up_items
pick_up_items(i) == i \in {"apple", "apple_copy", "potion", "stone"}

\* names the player may type at the item prompts
ItemInputs == {Name_APPLE, Name_magic_potion, Name_stone}

\* names the player may type at the creature prompt
CreatureInputs == Nicknames

\* directions the player may type at the move prompt
MoveInputs == cardinal \cup {"East"}

-----------------------------------------------------------------------------
(* The state of the session as one record, and the handlers as functions   *)
(* from state to state                                                     *)

G == [doors |-> doors, creatures |-> creatures, items |-> items,
      creature_location |-> creature_location,
      current_pymon |-> current_pymon, current_location |-> current_location,
      energy |-> energy, inventory |-> inventory, pets |-> pets,
      track_moves |-> track_moves, immunity |-> immunity,
      description |-> description, battles |-> battles,
      pc |-> pc, match |-> match, outcome |-> "none"]

Becomes(g) ==
    /\ doors' = g.doors
    /\ creatures' = g.creatures
    /\ items' = g.items
    /\ creature_location' = g.creature_location
    /\ current_pymon' = g.current_pymon
    /\ current_location' = g.current_location
    /\ energy' = g.energy
    /\ inventory' = g.inventory
    /\ pets' = g.pets
    /\ track_moves' = g.track_moves
    /\ immunity' = g.immunity
    /\ description' = g.description
    /\ battles' = g.battles
    /\ pc' = g.pc
    /\ match' = g.match

\* Pymon.enery_max
enery_max == 3

\* Pymon.random_escape: random.choice is handed a dict view, which it cannot
\* index, so the call raises TypeError before anything is changed
random_escape(g, self) == [g EXCEPT !.outcome = "moved_TypeError"]

\* energy is spent on every move
spend_every(g, self) ==
    LET g2 == [g EXCEPT !.track_moves[self] = 0, !.energy[self] = @ - 1]
    IN  IF g2.energy[self] <= 0 THEN random_escape(g2, self) ELSE g2

\* the end of a successful Pymon.move: every second move costs one energy,
\* and at no energy the Pymon tries to escape
spend(g, self) ==
    IF g.track_moves[self] >= 2
    THEN LET g2 == [g EXCEPT !.track_moves[self] = 0, !.energy[self] = @ - 1]
         IN  IF g2.energy[self] <= 0 THEN random_escape(g2, self) ELSE g2
    ELSE g

\* the move counter is bumped before the direction is validated
move_counts_first(g, self, direction) ==
    [g EXCEPT !.track_moves[self] = @ + 1, !.outcome = "InvalidDirection"]

\* Pymon.move(self, direction); the TypeError of random_escape leaves move
\* and is caught by Operation.move_pymon
move(g, self, direction) ==
    IF direction \notin cardinal
    THEN [g EXCEPT !.outcome = "InvalidDirection"]
    ELSE IF g.current_location[self] = None
    THEN g
    ELSE LET here == g.current_location[self]
         IN  IF direction \in DOMAIN g.doors[here] /\ g.doors[here][direction] # None
             THEN LET new_location == g.doors[here][direction]
                      c1 == IF InSeq(self, g.creatures[here])
                            THEN [g.creatures EXCEPT ![here] = ListRemove(@, self)]
                            ELSE g.creatures
                      c2 == [c1 EXCEPT ![new_location] = Append(@, self)]
                      g1 == [g EXCEPT !.creatures = c2,
                                      !.current_location[self] = new_location,
                                      !.track_moves[self] = @ + 1,
                                      !.outcome = "moved"]
                  IN  spend(g1, self)
             ELSE [g EXCEPT !.outcome = "InvalidDirection"]

\* the first item of list s whose lower-cased name equals the lower-cased name
FirstNamed(s, name) ==
    LET hits == {i \in DOMAIN s : Lower(ItemName(s[i])) = Lower(name)}
    IN  IF hits = {} THEN None
        ELSE s[CHOOSE i \in hits : \A j \in hits : i <= j]

\* the item is added to the inventory but stays in the location as well
pick_item_copy(g, self, name) ==
    LET here == g.current_location[self]
        item == FirstNamed(g.items[here], name)
    IN  IF item # None /\ pick_up_items(item)
        THEN [g EXCEPT !.inventory[self] = Append(@, item), !.outcome = "picked"]
        ELSE [g EXCEPT !.outcome = "not_picked"]

\* the pickable flag of the found item is not consulted
pick_item_any(g, self, name) ==
    LET here == g.current_location[self]
        item == FirstNamed(g.items[here], name)
    IN  IF item # None
        THEN [g EXCEPT !.inventory[self] = Append(@, item),
                       !.items[here] = ListRemove(@, item),
                       !.outcome = "picked"]
        ELSE [g EXCEPT !.outcome = "not_available"]

\* Pymon.pick_item(self, name)
pick_item(g, self, name) ==
    LET here == g.current_location[self]
        item == FirstNamed(g.items[here], name)
    IN  IF item # None
        THEN IF pick_up_items(item)
             THEN [g EXCEPT !.inventory[self] = Append(@, item),
                            !.items[here] = ListRemove(@, item),
                            !.outcome = "picked"]
             ELSE [g EXCEPT !.outcome = "cannot_be_picked"]
        ELSE [g EXCEPT !.outcome = "not_available"]

\* the eaten apple is not taken out of the inventory
use_item_keeps(g, self, item_name) ==
    LET item == FirstNamed(g.inventory[self], item_name)
    IN  IF item = None
        THEN [g EXCEPT !.outcome = "not_in_inventory"]
        ELSE IF Lower(ItemName(item)) = Name_apple
        THEN IF g.energy[self] < enery_max
             THEN [g EXCEPT !.energy[self] = @ + 1, !.outcome = "ate"]
             ELSE [g EXCEPT !.outcome = "already_maximum"]
        ELSE IF Lower(ItemName(item)) = Name_magic_potion
        THEN [g EXCEPT !.immunity[self] = TRUE,
                       !.inventory[self] = ListRemove(@, item),
                       !.outcome = "drank"]
        ELSE IF Lower(ItemName(item)) = Name_binocular
        THEN [g EXCEPT !.inventory[self] = ListRemove(@, item),
                       !.outcome = "looked"]
        ELSE [g EXCEPT !.outcome = "no_effect"]

\* Pymon.use_item(self, item_name); use_binocular only reads and prints
use_item(g, self, item_name) ==
    LET item == FirstNamed(g.inventory[self], item_name)
    IN  IF item = None
        THEN [g EXCEPT !.outcome = "not_in_inventory"]
        ELSE IF Lower(ItemName(item)) = Name_apple
        THEN IF g.energy[self] < enery_max
             THEN [g EXCEPT !.energy[self] = @ + 1,
                            !.inventory[self] = ListRemove(@, item),
                            !.outcome = "ate"]
             ELSE [g EXCEPT !.outcome = "already_maximum"]
        ELSE IF Lower(ItemName(item)) = Name_magic_potion
        THEN [g EXCEPT !.immunity[self] = TRUE,
                       !.inventory[self] = ListRemove(@, item),
                       !.outcome = "drank"]
        ELSE IF Lower(ItemName(item)) = Name_binocular
        THEN [g EXCEPT !.inventory[self] = ListRemove(@, item),
                       !.outcome = "looked"]
        ELSE [g EXCEPT !.outcome = "no_effect"]

-----------------------------------------------------------------------------
(* The challenge *)

NoObject == [kind |-> "none", nick |-> ""]

NoMatch == [opponent |-> NoObject, win |-> 0, loss |-> 0, draw |-> 0]

Name_rock == <<114, 111, 99, 107>>
Name_Rock == <<82, 111, 99, 107>>
Name_paper == <<112, 97, 112, 101, 114>>
Name_scissors == <<115, 99, 105, 115, 115, 111, 114, 115>>
Name_lizard == <<108, 105, 122, 97, 114, 100>>
Name_rocKelvin == <<114, 111, 99, 8490>>      \* "roc" and U+212A KELVIN SIGN

\* the choices of random.choice(["rock", "paper", "scissors"])
Turns == {Name_rock, Name_paper, Name_scissors}

\* answers the player may type at the prompt of the battle loop
TurnInputs == {Name_Rock, Name_paper, Name_scissors, Name_lizard, Name_rocKelvin}

\* BattleStats.add_battle on the dict bs; the timestamp of the record is left out
\* the record replaces the list instead of being appended to it
add_battle_replace(bs, pymon_name, opponent, wins, draws, losses) ==
    DictSet(bs, pymon_name, <<[opponent |-> opponent, wins |-> wins,
                               draws |-> draws, losses |-> losses]>>)

\* BattleStats.add_battle: the timestamp of the record is left out
add_battle(bs, pymon_name, opponent, wins, draws, losses) ==
    LET old == IF pymon_name \in DOMAIN bs THEN bs[pymon_name] ELSE <<>>
        battle == [opponent |-> opponent, wins |-> wins, draws |-> draws,
                   losses |-> losses]
    IN  DictSet(bs, pymon_name, Append(old, battle))

\* BattleStats.__init__
NoBattles == [n \in {} |-> <<>>]

\* Pymon.set_energy: assigns the energy without a range check. No command
\* of Operation.handle_menu and no other code of the program calls it: only
\* a caller that holds the Pymon object applies it (SetEnergyCall).
set_energy(g, self, e) == [g EXCEPT !.energy[self] = e]

\* the first creature of the Pymon's location with that nickname
find_opponent(g, self, creature_name) ==
    LET s == g.creatures[g.current_location[self]]
        hits == {i \in DOMAIN s : s[i].nick = creature_name}
    IN  IF hits = {} THEN NoObject
        ELSE s[CHOOSE i \in hits : \A j \in hits : i <= j]

\* the captured Pymon is put at the front of the pet list
finish_push_front(g, self) ==
    LET m == g.match
        g1 == [g EXCEPT !.battles[self] =
                            add_battle(@, self.nick, m.opponent.nick,
                                       m.win, m.draw, m.loss),
                        !.pc = "menu",
                        !.match = NoMatch]
    IN  IF m.win >= 2
        THEN LET captured_pymon == PetOf(m.opponent)
             IN  [g1 EXCEPT !.current_location[captured_pymon] =
                                g.creature_location[m.opponent],
                            !.energy[captured_pymon] = enery_max,
                            !.inventory[captured_pymon] = <<>>,
                            !.pets[captured_pymon] = <<>>,
                            !.track_moves[captured_pymon] = 0,
                            !.immunity[captured_pymon] = FALSE,
                            !.description[captured_pymon] =
                                CreatureDescription(m.opponent),
                            !.battles[captured_pymon] = NoBattles,
                            !.pets[self] = <<captured_pymon>> \o @,
                            !.creatures[g.current_location[self]] =
                                ListRemove(@, m.opponent),
                            !.outcome = "won"]
        ELSE IF g1.pets[self] # <<>>
        THEN LET next_pymon == Head(g1.pets[self])
                 g2 == [g1 EXCEPT !.pets[self] = Tail(@)]
                 g3 == [g2 EXCEPT !.inventory[next_pymon] = @ \o g2.inventory[self]]
                 g4 == [g3 EXCEPT !.inventory[self] = <<>>]
             IN  [g4 EXCEPT !.current_location[self] =
                                g4.current_location[next_pymon],
                            !.outcome = "lost"]
        ELSE [g1 EXCEPT !.pc = "over", !.outcome = "game_over"]

\* a lost match with no pet left returns to the menu
finish_no_exit(g, self) ==
    LET m == g.match
        g1 == [g EXCEPT !.battles[self] =
                            add_battle(@, self.nick, m.opponent.nick,
                                       m.win, m.draw, m.loss),
                        !.pc = "menu",
                        !.match = NoMatch]
    IN  IF m.win >= 2
        THEN LET captured_pymon == PetOf(m.opponent)
             IN  [g1 EXCEPT !.current_location[captured_pymon] =
                                g.creature_location[m.opponent],
                            !.energy[captured_pymon] = enery_max,
                            !.inventory[captured_pymon] = <<>>,
                            !.pets[captured_pymon] = <<>>,
                            !.track_moves[captured_pymon] = 0,
                            !.immunity[captured_pymon] = FALSE,
                            !.description[captured_pymon] =
                                CreatureDescription(m.opponent),
                            !.battles[captured_pymon] = NoBattles,
                            !.pets[self] = Append(@, captured_pymon),
                            !.creatures[g.current_location[self]] =
                                ListRemove(@, m.opponent),
                            !.outcome = "won"]
        ELSE IF g1.pets[self] # <<>>
        THEN LET next_pymon == Head(g1.pets[self])
                 g2 == [g1 EXCEPT !.pets[self] = Tail(@)]
                 g3 == [g2 EXCEPT !.inventory[next_pymon] = @ \o g2.inventory[self]]
                 g4 == [g3 EXCEPT !.inventory[self] = <<>>]
             IN  [g4 EXCEPT !.current_location[self] =
                                g4.current_location[next_pymon],
                            !.outcome = "lost"]
        ELSE [g1 EXCEPT !.outcome = "game_over"]

\* the record of the match is forgotten
record_skip(g, self) == g

\* line 379 of Pymon.Challenge: the tallies of the loop go to the ledger
record(g, self) ==
    [g EXCEPT !.battles[self] =
                  add_battle(@, self.nick, g.match.opponent.nick,
                             g.match.win, g.match.draw, g.match.loss)]

\* lines 381-405 of Pymon.Challenge: the win branch or the loss branch
outcome(g, self) ==
    LET m == g.match
        g1 == [g EXCEPT !.pc = "menu",
                        !.match = NoMatch]
    IN  IF m.win >= 2
        THEN LET captured_pymon == PetOf(m.opponent)
             IN  [g1 EXCEPT !.current_location[captured_pymon] =
                                g.creature_location[m.opponent],
                            !.energy[captured_pymon] = enery_max,
                            !.inventory[captured_pymon] = <<>>,
                            !.pets[captured_pymon] = <<>>,
                            !.track_moves[captured_pymon] = 0,
                            !.immunity[captured_pymon] = FALSE,
                            !.description[captured_pymon] =
                                CreatureDescription(m.opponent),
                            !.battles[captured_pymon] = NoBattles,
                            !.pets[self] = Append(@, captured_pymon),
                            !.creatures[g.current_location[self]] =
                                ListRemove(@, m.opponent),
                            !.outcome = "won"]
        ELSE IF g1.pets[self] # <<>>
        THEN LET next_pymon == Head(g1.pets[self])
                 g2 == [g1 EXCEPT !.pets[self] = Tail(@)]
                 g3 == [g2 EXCEPT !.inventory[next_pymon] = @ \o g2.inventory[self]]
                 g4 == [g3 EXCEPT !.inventory[self] = <<>>]
             IN  [g4 EXCEPT !.current_location[self] =
                                g4.current_location[next_pymon],
                            !.outcome = "lost"]
        ELSE [g1 EXCEPT !.pc = "over", !.outcome = "game_over"]

\* Challenge from the end of the battle loop: the record, then the outcome
finish(g, self) == outcome(record(g, self), self)

\* the loop is left after the first round won or lost
loop_single_round(g, self) ==
    IF g.match.win < 1 /\ g.match.loss < 1 /\ g.energy[self] > 0
    THEN [g EXCEPT !.pc = "battle", !.outcome = "round"]
    ELSE finish(g, self)

\* the loop test does not look at the challenger's energy
loop_no_energy(g, self) ==
    IF g.match.win < 2 /\ g.match.loss < 2
    THEN [g EXCEPT !.pc = "battle", !.outcome = "round"]
    ELSE finish(g, self)

\* the loop test lets a tally of 2 play on
loop_inclusive(g, self) ==
    IF g.match.win <= 2 /\ g.match.loss <= 2 /\ g.energy[self] > 0
    THEN [g EXCEPT !.pc = "battle", !.outcome = "round"]
    ELSE finish(g, self)

\* the head of the battle loop: wait at the prompt, or leave the loop
loop(g, self) ==
    IF g.match.win < 2 /\ g.match.loss < 2 /\ g.energy[self] > 0
    THEN [g EXCEPT !.pc = "battle", !.outcome = "round"]
    ELSE finish(g, self)

\* the adoptable flag of the opponent is not consulted
Challenge_any(g, self, creature_name) ==
    LET opponent == find_opponent(g, self, creature_name)
    IN  IF opponent = NoObject
        THEN [g EXCEPT !.outcome = "not_available"]
        ELSE IF opponent = self
        THEN [g EXCEPT !.outcome = "own_pymon"]
        ELSE loop([g EXCEPT !.match = [opponent |-> opponent, win |-> 0,
                                       loss |-> 0, draw |-> 0]], self)

\* lines 349-351 of Pymon.Challenge: the tallies of a new match
begin(g, opponent) ==
    [g EXCEPT !.match = [opponent |-> opponent, win |-> 0, loss |-> 0, draw |-> 0]]

\* Pymon.Challenge(self, creature_name) up to the first prompt of the loop
Challenge(g, self, creature_name) ==
    LET opponent == find_opponent(g, self, creature_name)
    IN  IF opponent = NoObject
        THEN [g EXCEPT !.outcome = "not_available"]
        ELSE IF opponent = self
        THEN [g EXCEPT !.outcome = "own_pymon"]
        ELSE IF ~adoptable(opponent)
        THEN [g EXCEPT !.outcome = "dialogue"]
        ELSE loop(begin(g, opponent), self)

beats(a, b) ==
    \/ a = Name_rock /\ b = Name_scissors
    \/ a = Name_scissors /\ b = Name_paper
    \/ a = Name_paper /\ b = Name_rock

\* a lost round costs no energy
round_free_loss(g, self, typed, opponent_turn) ==
    LET player_turn == Lower(typed)
    IN  IF player_turn \notin Turns
        THEN loop(g, self)
        ELSE IF player_turn = opponent_turn
        THEN loop([g EXCEPT !.match.draw = @ + 1], self)
        ELSE IF beats(player_turn, opponent_turn)
        THEN loop([g EXCEPT !.match.win = @ + 1], self)
        ELSE loop([g EXCEPT !.match.loss = @ + 1], self)

\* lines 354-377 of Pymon.Challenge: the body of one pass of the battle loop
\* on the typed answer and the opponent's choice
tally(g, self, typed, opponent_turn) ==
    LET player_turn == Lower(typed)
    IN  IF player_turn \notin Turns
        THEN g
        ELSE IF player_turn = opponent_turn
        THEN [g EXCEPT !.match.draw = @ + 1]
        ELSE IF beats(player_turn, opponent_turn)
        THEN [g EXCEPT !.match.win = @ + 1]
        ELSE [g EXCEPT !.match.loss = @ + 1, !.energy[self] = @ - 1]

\* one pass of the battle loop and the loop test after it
round(g, self, typed, opponent_turn) ==
    loop(tally(g, self, typed, opponent_turn), self)

\* list.pop(i) position (1-based) for a Python index i, 0 when out of range
PopPosition(s, i) ==
    IF i >= 0 /\ i < Len(s) THEN i + 1
    ELSE IF i < 0 /\ -i <= Len(s) THEN Len(s) + i + 1
    ELSE 0

\* Operation.select_benched_pymon on the number typed at its prompt
select_benched_pymon(g, user) ==
    LET cp == g.current_pymon
    IN  IF g.pets[cp] = <<>>
        THEN [g EXCEPT !.outcome = "no_other_pymon"]
        ELSE IF user = 0
        THEN [g EXCEPT !.outcome = "cancelled"]
        ELSE LET pos == PopPosition(g.pets[cp], user - 1)
             IN  IF pos = 0
                 THEN [g EXCEPT !.outcome = "invalid_selection"]
                 ELSE LET selected_pymon == g.pets[cp][pos]
                      IN  [g EXCEPT !.pets[cp] = Append(DropAt(@, pos), cp),
                                    !.current_pymon = selected_pymon,
                                    !.outcome = "switched"]

\* Operation.check_inventory on the answer to "use an item?" and the item typed
check_inventory(g, use, item_choice) ==
    IF g.inventory[g.current_pymon] = <<>>
    THEN [g EXCEPT !.outcome = "empty"]
    ELSE IF use
    THEN use_item(g, g.current_pymon, item_choice)
    ELSE [g EXCEPT !.outcome = "declined"]

-----------------------------------------------------------------------------
(* Initial states *)

\* the record kept of a command: what was called and how it ended; of a connect
\* call also its arguments
NoCommand == [op |-> "none", outcome |-> "none", room |-> "", dir |-> "", other |-> ""]

\* Operation.__init__ and Pymon.__init__: nothing is placed yet
Constructed ==
    /\ creatures = [l \in Locations |-> <<>>]
    /\ items = [l \in Locations |-> <<>>]
    /\ creature_location = [c \in Creatures |-> None]
    /\ current_pymon = Kimimon
    /\ current_location = [p \in Pymons |-> None]
    /\ energy = [p \in Pymons |-> 3]
    /\ inventory = [p \in Pymons |-> <<>>]
    /\ pets = [p \in Pymons |-> <<>>]
    /\ track_moves = [p \in Pymons |-> 0]
    /\ immunity = [p \in Pymons |-> FALSE]
    /\ description = [p \in Pymons |-> IF p = Kimimon THEN DefaultDescription ELSE None]
    /\ battles = [p \in Pymons |-> NoBattles]
    /\ pc = "menu"
    /\ match = NoMatch
    /\ nmoves = [p \in Pymons |-> 0]
    /\ energy_before = 0
    /\ last = NoCommand

\* the world before any connect call
InitWorld ==
    /\ doors = FreshWorld
    /\ nconnects = 0
    /\ Constructed

\* what Operation.setup draws: the rows of creatures.csv and items.csv, each
\* with the random location it is added to, in file order, and the random
\* location the Pymon is spawned at
SetupRich(start) ==
    [start |-> start,
     creatures |-> <<[o |-> Toromon, at |-> "Cave"], [o |-> Sheep, at |-> "Cave"]>>,
     items |-> <<[o |-> "apple", at |-> "Forest"], [o |-> "fake_apple", at |-> "Forest"],
                 [o |-> "potion", at |-> "Cave"]>>]

SetupWild(start) ==
    [start |-> start,
     creatures |-> <<[o |-> Toromon, at |-> "Cave"], [o |-> Kitimon, at |-> "Forest"],
                     [o |-> Sheep, at |-> "Cave"]>>,
     items |-> <<[o |-> "stone", at |-> "Beach"]>>]

\* the apple row was duplicated by setup; no creature can be adopted
SetupOrchard(start) ==
    [start |-> start,
     creatures |-> <<[o |-> Sheep, at |-> "Cave"]>>,
     items |-> <<[o |-> "apple", at |-> "Forest"], [o |-> "apple_copy", at |-> "Forest"]>>]

Setups ==
    {SetupRich("Forest"), SetupRich("Beach"), SetupWild("Forest"), SetupOrchard("Forest")}

\* the list of a location after the placements ps, in order
Placed(ps, l) ==
    LET here == SelectSeq(ps, LAMBDA r : r.at = l)
    IN  [i \in DOMAIN here |-> here[i].o]

\* where the placements ps put object x, None when it is not among them
PlacedAt(ps, x) ==
    IF \E i \in DOMAIN ps : ps[i].o = x
    THEN ps[CHOOSE i \in DOMAIN ps : ps[i].o = x].at
    ELSE None

\* the session after Operation.setup: the imported world, the Pymon spawned at
\* a random location, then creatures and items appended at their locations
Init ==
    /\ doors = ImportedWorld
    /\ nconnects = 2
    /\ \E su \in Setups :
        /\ creatures =
              [l \in Locations |->
                  (IF l = su.start THEN <<Kimimon>> ELSE <<>>) \o Placed(su.creatures, l)]
        /\ items = [l \in Locations |-> Placed(su.items, l)]
        /\ current_location = [p \in Pymons |-> IF p = Kimimon THEN su.start ELSE None]
        /\ creature_location = [c \in Creatures |-> PlacedAt(su.creatures, c)]
    /\ current_pymon = Kimimon
    /\ energy = [p \in Pymons |-> 3]
    /\ inventory = [p \in Pymons |-> <<>>]
    /\ pets = [p \in Pymons |-> <<>>]
    /\ track_moves = [p \in Pymons |-> 0]
    /\ immunity = [p \in Pymons |-> FALSE]
    /\ description = [p \in Pymons |-> IF p = Kimimon THEN DefaultDescription ELSE None]
    /\ battles = [p \in Pymons |-> NoBattles]
    /\ pc = "menu"
    /\ match = NoMatch
    /\ nmoves = [p \in Pymons |-> 0]
    /\ energy_before = 0
    /\ last = NoCommand

-----------------------------------------------------------------------------
(* Actions *)

RECURSIVE SumOver(_, _)
SumOver(f, S) ==
    IF S = {} THEN 0
    ELSE LET x == CHOOSE y \in S : TRUE IN f[x] + SumOver(f, S \ {x})

\* successful moves made in the session so far
TotalMoves == SumOver(nmoves, Pymons)

RECURSIVE SumDraws(_)
SumDraws(s) == IF s = <<>> THEN 0 ELSE Head(s).draws + SumDraws(Tail(s))

\* tied rounds of the session so far: those of the recorded matches and of
\* the running one
TotalDraws ==
    match.draw +
    SumOver([p \in Pymons |->
                SumOver([n \in DOMAIN battles[p] |-> SumDraws(battles[p][n])],
                        DOMAIN battles[p])], Pymons)

\* one call of Location.connect while the world is built
ConnectCall(self, direction, another_room) ==
    /\ nconnects < MaxConnects
    /\ doors' = connect(doors, self, direction, another_room)
    /\ nconnects' = nconnects + 1
    /\ last' = [op |-> "connect", outcome |-> "returned", room |-> self,
                 dir |-> direction, other |-> another_room]
    /\ UNCHANGED <<creatures, items, creature_location, current_pymon,
                   current_location, energy, inventory, pets, track_moves,
                   immunity, description, battles, pc, match, nmoves,
                   energy_before>>

\* menu command 3: Operation.move_pymon
MoveCmd(direction) ==
    /\ pc = "menu"
    /\ TotalMoves < MaxMoves
    /\ LET g == move(G, current_pymon, direction)
       IN  /\ Becomes(g)
           /\ nmoves' = IF g.outcome \in {"moved", "moved_TypeError"}
                        THEN [nmoves EXCEPT ![current_pymon] = @ + 1]
                        ELSE nmoves
           /\ last' = [NoCommand EXCEPT !.op = "move", !.outcome = g.outcome]
    /\ UNCHANGED <<nconnects, energy_before>>

\* menu command 4: Operation.pick_item
PickCmd(item_name) ==
    /\ pc = "menu"
    /\ LET g == pick_item(G, current_pymon, item_name)
       IN  /\ Becomes(g)
           /\ last' = [NoCommand EXCEPT !.op = "pick", !.outcome = g.outcome]
    /\ UNCHANGED <<nconnects, nmoves, energy_before>>

\* menu command 5: Operation.check_inventory
UseCmd(use, item_choice) ==
    /\ pc = "menu"
    /\ LET g == check_inventory(G, use, item_choice)
       IN  /\ Becomes(g)
           /\ last' = [NoCommand EXCEPT !.op = "use", !.outcome = g.outcome]
    /\ UNCHANGED <<nconnects, nmoves, energy_before>>

\* menu command 6: Operation.challenge_creature, up to the first prompt
ChallengeCmd(creature_name) ==
    /\ pc = "menu"
    /\ LET g == Challenge(G, current_pymon, creature_name)
       IN  /\ Becomes(g)
           /\ last' = [NoCommand EXCEPT !.op = "challenge", !.outcome = g.outcome]
           /\ energy_before' = IF g.pc = "battle" THEN energy[current_pymon] ELSE 0
    /\ UNCHANGED <<nconnects, nmoves>>

\* one answer at the prompt of the battle loop, up to the next prompt or the
\* end of Challenge
RoundStep(typed, opponent_turn) ==
    /\ pc = "battle"
    /\ ~(Lower(typed) = opponent_turn /\ TotalDraws >= MaxDraws)
    /\ LET g == round(G, current_pymon, typed, opponent_turn)
       IN  /\ Becomes(g)
           /\ last' = [NoCommand EXCEPT !.op = "round", !.outcome = g.outcome]
           /\ energy_before' = IF g.pc = "battle" THEN energy_before ELSE 0
    /\ UNCHANGED <<nconnects, nmoves>>

\* menu command 1, 2: Operation.select_benched_pymon with a number typed
SwitchCmd(user) ==
    /\ pc = "menu"
    /\ LET g == select_benched_pymon(G, user)
       IN  /\ Becomes(g)
           /\ last' = [NoCommand EXCEPT !.op = "switch", !.outcome = g.outcome]
    /\ UNCHANGED <<nconnects, nmoves, energy_before>>

\* numbers the player may type at the switch prompt
SwitchInputs == -1..3

\* menu command 8: sys.exit(0) of Operation.handle_menu
ExitCmd ==
    /\ pc = "menu"
    /\ pc' = "exited"
    /\ last' = [NoCommand EXCEPT !.op = "exit", !.outcome = "exited"]
    /\ UNCHANGED <<doors, nconnects, creatures, items, creature_location,
                   current_pymon, current_location, energy, inventory, pets,
                   track_moves, immunity, description, battles, match, nmoves,
                   energy_before>>

NextWorld ==
    \E self \in Locations, direction \in Directions, another_room \in Locations :
        ConnectCall(self, direction, another_room)

Next ==
    \/ \E direction \in MoveInputs : MoveCmd(direction)
    \/ \E item_name \in ItemInputs : PickCmd(item_name)
    \/ \E item_choice \in ItemInputs : UseCmd(TRUE, item_choice)
    \/ UseCmd(FALSE, <<>>)
    \/ \E creature_name \in CreatureInputs : ChallengeCmd(creature_name)
    \/ \E typed \in TurnInputs, opponent_turn \in Turns : RoundStep(typed, opponent_turn)
    \/ \E user \in SwitchInputs : SwitchCmd(user)
    \/ ExitCmd

\* the session: commands after Operation.setup
Spec == Init /\ [][Next]_vars

\* an answer at the prompt of the battle loop that is valid and not a tie
DecisiveRound ==
    \E typed \in TurnInputs, opponent_turn \in Turns :
        /\ pc = "battle"
        /\ Lower(typed) \in Turns
        /\ Lower(typed) # opponent_turn
        /\ RoundStep(typed, opponent_turn)

\* a command of a session with at most MaxFairMoves successful moves
NextFair ==
    \/ \E direction \in MoveInputs : TotalMoves < MaxFairMoves /\ MoveCmd(direction)
    \/ \E item_name \in ItemInputs : PickCmd(item_name)
    \/ \E item_choice \in ItemInputs : UseCmd(TRUE, item_choice)
    \/ UseCmd(FALSE, <<>>)
    \/ \E creature_name \in CreatureInputs : ChallengeCmd(creature_name)
    \/ \E typed \in TurnInputs, opponent_turn \in Turns : RoundStep(typed, opponent_turn)
    \/ \E user \in SwitchInputs : SwitchCmd(user)
    \/ ExitCmd

\* the session when valid, non-tied rounds eventually occur in every match
SpecFair == Init /\ [][NextFair]_vars /\ WF_vars(DecisiveRound)

\* energies a caller of Pymon.set_energy passes: below the range, inside
\* it and above enery_max
EnergyInputs == {-2, 2, 7}

\* a call of the public method Pymon.set_energy on a Pymon that has been
\* constructed, made between two commands by a caller other than the menu
SetEnergyCall(self, e) ==
    /\ pc = "menu"
    /\ current_location[self] # None
    /\ Becomes(set_energy(G, self, e))
    /\ last' = [NoCommand EXCEPT !.op = "set_energy"]
    /\ UNCHANGED <<nconnects, nmoves, energy_before>>

\* a call of Pymon.set_energy assigns the energy of that Pymon, whatever the
\* value, and changes nothing else of the game
SetEnergyAssigns ==
    [][last'.op = "set_energy" =>
          \E self \in Pymons, e \in EnergyInputs :
              /\ energy' = [energy EXCEPT ![self] = e]
              /\ UNCHANGED <<doors, creatures, items, creature_location,
                             current_pymon, current_location, inventory, pets,
                             track_moves, immunity, description, battles, pc,
                             match>>]_vars

\* a call of Pymon.set_energy has put the energy of the active Pymon above
\* enery_max
SetEnergyAbove ==
    /\ last.op = "set_energy"
    /\ energy[current_pymon] > enery_max

\* a command of a session with at most MaxApiMoves successful moves, or a
\* call of Pymon.set_energy
NextApi ==
    \/ \E direction \in MoveInputs : TotalMoves < MaxApiMoves /\ MoveCmd(direction)
    \/ \E item_name \in ItemInputs : PickCmd(item_name)
    \/ \E item_choice \in ItemInputs : UseCmd(TRUE, item_choice)
    \/ UseCmd(FALSE, <<>>)
    \/ \E creature_name \in CreatureInputs : ChallengeCmd(creature_name)
    \/ \E typed \in TurnInputs, opponent_turn \in Turns : RoundStep(typed, opponent_turn)
    \/ \E user \in SwitchInputs : SwitchCmd(user)
    \/ ExitCmd
    \/ \E self \in Pymons, e \in EnergyInputs : SetEnergyCall(self, e)

\* the classes driven by a caller that issues the commands of the session
\* and also calls Pymon.set_energy, which the program itself never does
SpecApi == Init /\ [][NextApi]_vars

\* Pymon.Challenge stopped after line 379: the record is in the ledger, the
\* branch of line 381 has not run
recorded(g, self) ==
    [record(g, self) EXCEPT !.pc = "recorded", !.outcome = "recorded"]

\* menu command 6 up to the first prompt of the loop or, when the loop is
\* not entered, up to line 379
ChallengeSteps(creature_name) ==
    /\ pc = "menu"
    /\ LET self == current_pymon
           whole == Challenge(G, self, creature_name)
           g == IF whole.outcome \in {"won", "lost", "game_over"}
                THEN recorded(begin(G, find_opponent(G, self, creature_name)), self)
                ELSE whole
       IN  /\ Becomes(g)
           /\ last' = [NoCommand EXCEPT !.op = "challenge", !.outcome = g.outcome]
           /\ energy_before' = IF g.pc = "menu" THEN 0 ELSE energy[self]
    /\ UNCHANGED <<nconnects, nmoves>>

\* one pass of the battle loop up to the next prompt or, when the loop is
\* left, up to line 379
RoundSteps(typed, opponent_turn) ==
    /\ pc = "battle"
    /\ ~(Lower(typed) = opponent_turn /\ TotalDraws >= MaxDraws)
    /\ LET self == current_pymon
           whole == round(G, self, typed, opponent_turn)
           g == IF whole.pc = "battle"
                THEN whole
                ELSE recorded(tally(G, self, typed, opponent_turn), self)
       IN  /\ Becomes(g)
           /\ last' = [NoCommand EXCEPT !.op = "round", !.outcome = g.outcome]
    /\ UNCHANGED <<nconnects, nmoves, energy_before>>

\* lines 381-405 of Pymon.Challenge, run from the state line 379 left
OutcomeStep ==
    /\ pc = "recorded"
    /\ LET g == outcome(G, current_pymon)
       IN  /\ Becomes(g)
           /\ last' = [NoCommand EXCEPT !.op = "outcome", !.outcome = g.outcome]
    /\ energy_before' = 0
    /\ UNCHANGED <<nconnects, nmoves>>

\* the session with Challenge taken statement by statement at its end
NextSteps ==
    \/ \E direction \in MoveInputs : TotalMoves < MaxStepMoves /\ MoveCmd(direction)
    \/ \E item_name \in ItemInputs : PickCmd(item_name)
    \/ \E item_choice \in ItemInputs : UseCmd(TRUE, item_choice)
    \/ UseCmd(FALSE, <<>>)
    \/ \E creature_name \in CreatureInputs : ChallengeSteps(creature_name)
    \/ \E typed \in TurnInputs, opponent_turn \in Turns : RoundSteps(typed, opponent_turn)
    \/ OutcomeStep
    \/ \E user \in SwitchInputs : SwitchCmd(user)
    \/ ExitCmd

\* the session with Challenge stopped between line 379 and line 381
SpecSteps == Init /\ [][NextSteps]_vars

\* the construction of the world: connect calls on fresh locations
SpecWorld == InitWorld /\ [][NextWorld]_vars

-----------------------------------------------------------------------------
(* Properties *)

\* the locations behind the non-empty door slots of location l
Neighbours(l) == {doors[l][d] : d \in {x \in DOMAIN doors[l] : doors[l][x] # None}}

\* the step is a successful move of the active Pymon in direction d
MovedIn(d) ==
    /\ last'.op = "move"
    /\ last'.outcome \in {"moved", "moved_TypeError"}
    /\ MoveCmd(d)

\* the items other than x keep their containers
OthersKept(x) ==
    \A i \in Items \ {x} :
        /\ \A l \in Locations : Count(i, items'[l]) = Count(i, items[l])
        /\ \A p \in Pymons : Count(i, inventory'[p]) = Count(i, inventory[p])

\* C1: every Pymon, active or benched, has an energy between 0 and 3 in every
\* state the commands can reach.
C1_EnergyInvariant == \A p \in Pymons : 0 <= energy[p] /\ energy[p] <= 3

\* C2: counting the successful moves of each Pymon, every even-numbered one
\* takes exactly one energy and resets the move counter to 0, and every
\* odd-numbered one leaves the energy as it is.
C2_MoveEnergyLaw ==
    [][\A p \in Pymons :
          nmoves'[p] = nmoves[p] + 1 =>
              IF nmoves'[p] % 2 = 0
              THEN energy'[p] = energy[p] - 1 /\ track_moves'[p] = 0
              ELSE energy'[p] = energy[p]]_vars

\* a Pymon has made its fourth successful move, which reset its counter
C2_Witness ==
    /\ last.op = "move"
    /\ last.outcome \in {"moved", "moved_TypeError"}
    /\ nmoves[current_pymon] = 4
    /\ track_moves[current_pymon] = 0

\* C3: when the active Pymon at location A moves through a door to a location
\* B other than A, and no forced relocation is triggered, the Pymon is then in
\* B's creature list, is no longer in A's creature list, and its location is B.
C3_SuccessfulMove ==
    [][\A d \in cardinal :
          LET p == current_pymon
              A == current_location[p]
          IN  (MovedIn(d) /\ last'.outcome = "moved" /\ doors[A][d] # A) =>
                  LET B == doors[A][d]
                  IN  /\ InSeq(p, creatures'[B])
                      /\ ~InSeq(p, creatures'[A])
                      /\ current_location'[p] = B]_vars

\* C4: a move in a direction that is not cardinal, or whose door slot at the
\* current location is empty, ends with InvalidDirection and changes nothing
\* of the game; the session stays at the menu.
C4_RejectedMove ==
    [][\A d \in MoveInputs :
          LET A == current_location[current_pymon]
          IN  (/\ last'.op = "move"
               /\ d \notin cardinal \/ doors[A][d] = None
               /\ MoveCmd(d)) =>
                  /\ last'.outcome = "InvalidDirection"
                  /\ UNCHANGED game
                  /\ pc' = "menu"]_vars

\* a move has been rejected
C4_Witness == last.op = "move" /\ last.outcome = "InvalidDirection"

\* C5: when a successful move brings the energy of the Pymon to 0 or below,
\* the Pymon ends the command at one of the non-empty neighbours of the
\* location it entered, in that neighbour's creature list and not in the
\* entered location's list.
C5_ForcedRelocation ==
    [][\A d \in cardinal :
          LET p == current_pymon
              entered == doors[current_location[p]][d]
          IN  (MovedIn(d) /\ energy'[p] <= 0) =>
                  /\ current_location'[p] \in Neighbours(entered)
                  /\ InSeq(p, creatures'[current_location'[p]])
                  /\ ~InSeq(p, creatures'[entered])]_vars

\* C6: after connect(A, D, B) with a cardinal D, A.doors[D] is B and
\* B.doors[opposite(D)] is A, and no other door slot of any location changed.
C6_ConnectPostcondition ==
    [][(last'.op = "connect" /\ last'.dir \in cardinal) =>
          LET A == last'.room
              B == last'.other
              D == last'.dir
              O == opposite_directions[D]
          IN  /\ doors'[A][D] = B
              /\ doors'[B][O] = A
              /\ \A l \in Locations :
                    /\ DOMAIN doors'[l] = DOMAIN doors[l]
                    /\ \A x \in DOMAIN doors[l] :
                          <<l, x>> \notin {<<A, D>>, <<B, O>>} =>
                              doors'[l][x] = doors[l][x]]_vars

\* a cardinal connect between two different locations has been made
C6_Witness ==
    /\ last.op = "connect"
    /\ last.dir \in cardinal
    /\ last.room # last.other
    /\ doors[last.room][last.dir] = last.other

\* C7: in a world built from fresh locations by connect calls only, a door of
\* A in direction D that leads to B is matched by the door of B in the
\* opposite direction, which leads to A.
C7_WorldSymmetry ==
    \A A \in Locations, B \in Locations, D \in cardinal :
        doors[A][D] = B => doors[B][opposite_directions[D]] = A

\* C8: connect(A, D, B) with a D that is not cardinal fails with
\* InvalidDirection and leaves the door maps as they were.
C8_ConnectRejected ==
    [][(last'.op = "connect" /\ last'.dir \notin cardinal) =>
          /\ last'.outcome = "InvalidDirection"
          /\ doors' = doors]_vars

\* C9: no item instance is in more than one container, the containers being
\* the item lists of the locations and the inventories of the Pymons.
C9_ItemOwnership ==
    \A i \in Items :
        SumOver([l \in Locations |-> Count(i, items[l])], Locations) +
        SumOver([p \in Pymons |-> Count(i, inventory[p])], Pymons) <= 1

\* a lost match has handed the inventory of the loser to a captured Pymon
C9_Witness ==
    /\ last.outcome = "lost"
    /\ \E p \in Pymons \ {Kimimon} : inventory[p] # <<>>

\* C10: pick(name) changes nothing when no item of the Pymon's location has
\* that name, compared without case, or the first such item is not pickable;
\* otherwise exactly that item instance leaves the location's list and joins
\* the Pymon's inventory, and nothing else changes.
C10_Pick ==
    [][\A n \in ItemInputs :
          (last'.op = "pick" /\ PickCmd(n)) =>
              LET p == current_pymon
                  here == current_location[p]
                  s == items[here]
                  hits == {k \in DOMAIN s : Lower(ItemName(s[k])) = Lower(n)}
                  first == CHOOSE k \in hits : \A j \in hits : k <= j
              IN  IF hits = {} \/ ~pick_up_items(s[first])
                  THEN UNCHANGED game
                  ELSE /\ Count(s[first], items'[here]) = 0
                       /\ Len(items'[here]) = Len(s) - 1
                       /\ inventory'[p] = Append(inventory[p], s[first])
                       /\ OthersKept(s[first])
                       /\ UNCHANGED <<doors, creatures, creature_location,
                                      current_pymon, current_location, energy,
                                      pets, track_moves, immunity, battles, pc,
                                      match>>]_vars

\* the Pymon holds the apple it picked, and its next pick of that name, which
\* found the item that cannot be picked, was refused
C10_Witness ==
    /\ last.op = "pick"
    /\ last.outcome = "cannot_be_picked"
    /\ InSeq("apple", inventory[current_pymon])

\* positions of the list s held by items named name, compared without case
NamedIn(s, name) == {i \in DOMAIN s : Lower(ItemName(s[i])) = Lower(name)}

\* C11: using an apple of the inventory at an energy below 3 raises the energy
\* by exactly 1 and takes exactly one apple instance out of the inventory,
\* leaving the other items as they were; at energy 3 the energy stays 3 and
\* the inventory is unchanged.
C11_UseApple ==
    [][\A n \in ItemInputs :
          LET p == current_pymon
              held == NamedIn(inventory[p], n)
          IN  (/\ last'.op = "use"
               /\ Lower(n) = Name_apple
               /\ held # {}
               /\ UseCmd(TRUE, n)) =>
                  /\ energy[p] < 3 =>
                        /\ energy'[p] = energy[p] + 1
                        /\ \E i \in held : inventory'[p] = DropAt(inventory[p], i)
                  /\ energy[p] = 3 =>
                        /\ energy'[p] = 3
                        /\ inventory'[p] = inventory[p]
                  /\ energy[p] <= 3]_vars

\* a second apple was refused at energy 3 after the first one was eaten
C11_Witness ==
    /\ last.op = "use"
    /\ last.outcome = "already_maximum"
    /\ InSeq("apple_copy", inventory[current_pymon])
    /\ \A l \in Locations : ~InSeq("apple", items[l])
    /\ \A q \in Pymons : ~InSeq("apple", inventory[q])

\* the step ends a match: Challenge leaves its loop and returns or exits
Resolves ==
    /\ last'.op \in {"challenge", "round"}
    /\ last'.outcome \in {"won", "lost", "game_over"}

\* the ledger of Pymon p under its own nickname
Ledger(b, p) == IF p.nick \in DOMAIN b[p] THEN b[p][p.nick] ELSE <<>>

\* the step appends exactly one record to the challenger's ledger and leaves
\* every other ledger alone
OneRecordAppended ==
    LET p == current_pymon
    IN  /\ Len(Ledger(battles', p)) = Len(Ledger(battles, p)) + 1
        /\ SubSeq(Ledger(battles', p), 1, Len(Ledger(battles, p))) = Ledger(battles, p)
        /\ DOMAIN battles'[p] = DOMAIN battles[p] \cup {p.nick}
        /\ \A n \in DOMAIN battles[p] \ {p.nick} : battles'[p][n] = battles[p][n]
        /\ \A q \in Pymons \ {p} : battles'[q] = battles[q]

\* the record the step appended to the challenger's ledger
Appended == Ledger(battles', current_pymon)[Len(Ledger(battles', current_pymon))]

\* C12 as stated: a match ends with exactly one of win >= 2, loss >= 2 and
\* energy = 0 holding, and with exactly one record appended to the
\* challenger's ledger.
C12_ExactlyOne ==
    [][Resolves =>
          LET W == Appended.wins >= 2
              L == Appended.losses >= 2
              E == energy'[current_pymon] = 0
          IN  /\ OneRecordAppended
              /\ \/ W /\ ~L /\ ~E
                 \/ ~W /\ L /\ ~E
                 \/ ~W /\ ~L /\ E]_vars

\* C12, amended: when valid, non-tied rounds eventually occur, every match
\* ends; it ends either with win >= 2 (and then loss < 2 and energy > 0) or
\* with win < 2 and at least one of loss >= 2 and energy <= 0; exactly one
\* record is appended to the challenger's ledger at the end and none before.
C12_Termination ==
    /\ [][(Resolves =>
              LET W == Appended.wins >= 2
                  L == Appended.losses >= 2
                  E == energy'[current_pymon] <= 0
              IN  /\ OneRecordAppended
                  /\ \/ W /\ ~L /\ ~E
                     \/ ~W /\ (L \/ E))
           /\ ((last'.op \in {"challenge", "round"} /\ ~Resolves) =>
                  battles' = battles)]_vars
    /\ (pc = "battle") ~> (pc # "battle")

\* a match lost 0-2 from energy 2: loss >= 2 and energy = 0 hold together
C12_Witness ==
    /\ last.op = "round"
    /\ last.outcome \in {"lost", "game_over"}
    /\ energy[current_pymon] = 0
    /\ Ledger(battles, current_pymon)[Len(Ledger(battles, current_pymon))].losses = 2

\* the tallies of the match after the step: those of the running match, or of
\* the record appended when the step ended it
TalliesAfter ==
    IF pc' = "battle"
    THEN [win |-> match'.win, loss |-> match'.loss, draw |-> match'.draw]
    ELSE [win |-> Appended.wins, loss |-> Appended.losses, draw |-> Appended.draws]

\* what a round changes: the win, loss and draw tallies and the challenger's energy
RoundDelta ==
    <<TalliesAfter.win - match.win, TalliesAfter.loss - match.loss,
      TalliesAfter.draw - match.draw, energy'[current_pymon] - energy[current_pymon]>>

\* the pairs (player, opponent) of rock-paper-scissors the player wins
WonRounds ==
    {<<Name_rock, Name_scissors>>, <<Name_scissors, Name_paper>>, <<Name_paper, Name_rock>>}

\* C13: in a match a tied round adds one to the draw tally only, a won round
\* one to the win tally only, a lost round one to the loss tally and takes
\* exactly one energy from the challenger, and an answer that is not rock,
\* paper or scissors changes no tally and no energy; no other Pymon's energy
\* changes; when the match ends the challenger's energy is its energy at the
\* start of the match minus the losses of the match.
C13_RoundEffects ==
    [][/\ \A typed \in TurnInputs, opponent_turn \in Turns :
             (last'.op = "round" /\ RoundStep(typed, opponent_turn)) =>
                 LET t == Lower(typed)
                 IN  /\ t \notin Turns => RoundDelta = <<0, 0, 0, 0>>
                     /\ (t \in Turns /\ t = opponent_turn) => RoundDelta = <<0, 0, 1, 0>>
                     /\ <<t, opponent_turn>> \in WonRounds => RoundDelta = <<1, 0, 0, 0>>
                     /\ (t \in Turns /\ t # opponent_turn
                            /\ <<t, opponent_turn>> \notin WonRounds) =>
                            RoundDelta = <<0, 1, 0, -1>>
                     /\ \A q \in Pymons \ {current_pymon} : energy'[q] = energy[q]
       /\ (last'.op = "round" /\ Resolves) =>
             energy'[current_pymon] = energy_before - Appended.losses
       /\ (last'.op = "challenge" /\ Resolves) =>
             /\ energy'[current_pymon] = energy[current_pymon]
             /\ Appended.losses = 0]_vars

\* a match won 2-1 with one tied round, from energy 3
C13_Witness ==
    /\ last.op = "round"
    /\ last.outcome = "won"
    /\ energy[current_pymon] = 2
    /\ LET rec == Ledger(battles, current_pymon)[Len(Ledger(battles, current_pymon))]
       IN  rec.wins = 2 /\ rec.losses = 1 /\ rec.draws = 1

\* C14: when a won round brings the win tally to 2, a Pymon with energy 3 and
\* the opponent's nickname and description, located at the opponent's location, is appended
\* at the end of the challenger's pet list, which grows by exactly one; the
\* opponent leaves the creature list of the location, the other entries and
\* lists staying as they were; the challenger's energy, inventory and
\* location are unchanged.
C14_MatchWin ==
    [][\A typed \in TurnInputs, opponent_turn \in Turns :
          (/\ last'.op = "round"
           /\ match.win = 1
           /\ <<Lower(typed), opponent_turn>> \in WonRounds
           /\ RoundStep(typed, opponent_turn)) =>
              LET p == current_pymon
                  opponent == match.opponent
                  here == current_location[p]
                  captured == pets'[p][Len(pets'[p])]
              IN  /\ pets'[p] = Append(pets[p], captured)
                  /\ captured.kind = "pymon"
                  /\ captured.nick = opponent.nick
                  /\ captured # p
                  /\ energy'[captured] = 3
                  /\ description'[captured] = CreatureDescription(opponent)
                  /\ current_location'[captured] = creature_location[opponent]
                  /\ creature_location[opponent] = here
                  /\ InSeq(opponent, creatures[here])
                  /\ creatures'[here] = SelectSeq(creatures[here], LAMBDA c : c # opponent)
                  /\ \A l \in Locations \ {here} : creatures'[l] = creatures[l]
                  /\ energy'[p] = energy[p]
                  /\ inventory'[p] = inventory[p]
                  /\ current_location'[p] = current_location[p]]_vars

\* a second creature was captured: the bench holds two Pymons
C14_Witness ==
    /\ last.op = "round"
    /\ last.outcome = "won"
    /\ Len(pets[current_pymon]) = 2
    /\ pets[current_pymon][1] # pets[current_pymon][2]

\* C15: when a match ends without two wins and the challenger has pets, the
\* front pet leaves the bench, whose remaining order is kept, becomes the
\* active Pymon of the session, holds every item the loser held besides its
\* own, the loser's inventory is empty, and the active Pymon's location is
\* that pet's location.
C15_LossPromotion ==
    [][(Resolves /\ Appended.wins < 2 /\ pets[current_pymon] # <<>>) =>
          LET p == current_pymon
              front == Head(pets[p])
          IN  /\ pets'[p] = Tail(pets[p])
              /\ current_pymon' = front
              /\ inventory'[front] = inventory[front] \o inventory[p]
              /\ front # p => inventory'[p] = <<>>
              /\ current_location'[current_pymon'] = current_location[front]]_vars

\* C16 as stated: the session is over exactly by a match that ends with the
\* loss tally at 2 or the energy at 0 while the challenger has no pets; no
\* other step ends the session, and no step follows the end.
C16_SingleEnd ==
    [][/\ pc \in {"menu", "battle"}
       /\ pc' = "over" <=>
             /\ Resolves
             /\ pets[current_pymon] = <<>>
             /\ Appended.losses = 2 \/ energy'[current_pymon] = 0
       /\ pc' \in {"menu", "battle", "over"}]_vars

\* C16, amended: the session is over exactly by a match that ends with the
\* win tally below 2 (the loss tally at 2, or the energy at or below 0) while
\* the challenger has no pets; the only other step that ends the session is
\* the Exit command of the menu; no step follows the end of the session.
C16_GameOver ==
    [][/\ pc \in {"menu", "battle"}
       /\ pc' = "over" <=>
             /\ Resolves
             /\ pets[current_pymon] = <<>>
             /\ Appended.wins < 2
       /\ pc' = "over" =>
             Appended.losses = 2 \/ energy'[current_pymon] <= 0
       /\ pc' \notin {"menu", "battle", "over"} <=> (pc = "menu" /\ ExitCmd)]_vars

\* the game is over after a match that ended on energy 0 with one round lost
C16_Witness ==
    /\ pc = "over"
    /\ last.outcome = "game_over"
    /\ energy[current_pymon] = 0
    /\ Ledger(battles, current_pymon)[Len(Ledger(battles, current_pymon))].losses = 1

\* C17: a challenge that names no creature of the challenger's location, the
\* challenger itself, or a creature that is not adoptable changes nothing:
\* energy, inventories, pet lists, creature lists, locations, ledgers and
\* every other part of the game state are unchanged, and the session stays
\* at the menu.
C17_RefusedChallenge ==
    [][\A n \in CreatureInputs :
          LET p == current_pymon
              here == creatures[current_location[p]]
              named == {i \in DOMAIN here : here[i].nick = n}
              first == here[CHOOSE i \in named : \A j \in named : i <= j]
          IN  (/\ last'.op = "challenge"
               /\ named = {} \/ n = p.nick \/ ~adoptable(first)
               /\ ChallengeCmd(n)) =>
                  UNCHANGED game]_vars

\* a Pymon with a pet on its bench and a match on its ledger was refused by a
\* creature that is not adoptable
C17_Witness ==
    /\ last.op = "challenge"
    /\ last.outcome = "dialogue"
    /\ pets[current_pymon] # <<>>
    /\ Ledger(battles, current_pymon) # <<>>

\* the members of a sequence
Members(s) == {s[i] : i \in DOMAIN s}

\* C18: a manual switch with a valid bench index makes the chosen pet the
\* session's active Pymon, whose bench is then the former bench without the
\* chosen pet plus the former active Pymon appended at the end, and no Pymon
\* is a member of its own pet list.
C18_SwitchDemotes ==
    [][\A user \in SwitchInputs :
          LET former == current_pymon
              bench == pets[former]
          IN  (/\ last'.op = "switch"
               /\ user \in 1..Len(bench)
               /\ SwitchCmd(user)) =>
                  /\ current_pymon' = bench[user]
                  /\ pets'[current_pymon'] = Append(DropAt(bench, user), former)
                  /\ \A p \in Pymons : p \notin Members(pets'[p])]_vars

\* C19: a manual switch with an invalid bench index (an integer other than 0
\* and outside 1..Len(bench), negative integers included) fails with a
\* validation error and changes no state: the active Pymon, every pet list
\* and the rest of the game state are unchanged.
C19_InvalidIndex ==
    [][\A user \in SwitchInputs :
          LET bench == pets[current_pymon]
          IN  (/\ last'.op = "switch"
               /\ bench # <<>>
               /\ user \notin 0..Len(bench)
               /\ SwitchCmd(user)) =>
                  /\ last'.outcome = "invalid_selection"
                  /\ UNCHANGED game]_vars

\* sequence s is a prefix of sequence t
Prefix(s, t) == Len(s) <= Len(t) /\ SubSeq(t, 1, Len(s)) = s

\* 1 when the condition holds, else 0
OneIf(b) == IF b THEN 1 ELSE 0

\* C20: BattleStats is append-only. In every step, for every Pymon's ledger
\* and every nickname, the records before the step are a prefix of the
\* records after it (none modified, reordered or removed); a ledger changes
\* only when a match ends, by one record, and that record carries the
\* opponent and the final win, draw and loss tallies of the match: the
\* tallies before the deciding round plus that round's result, or zero
\* tallies when the match ends at the challenge without a round.
C20_AppendOnly ==
    [][/\ \A p \in Pymons :
             /\ DOMAIN battles[p] \subseteq DOMAIN battles'[p]
             /\ \A n \in DOMAIN battles[p] : Prefix(battles[p][n], battles'[p][n])
       /\ (battles' # battles) => (Resolves /\ OneRecordAppended)
       /\ \A typed \in TurnInputs, opponent_turn \in Turns :
             (battles' # battles /\ RoundStep(typed, opponent_turn)) =>
                 LET t == Lower(typed)
                 IN  Appended =
                         [opponent |-> match.opponent.nick,
                          wins |-> match.win + OneIf(<<t, opponent_turn>> \in WonRounds),
                          draws |-> match.draw + OneIf(t = opponent_turn),
                          losses |-> match.loss + OneIf(<<opponent_turn, t>> \in WonRounds)]
       /\ \A n \in CreatureInputs :
             (battles' # battles /\ ChallengeCmd(n)) =>
                 Appended = [opponent |-> n, wins |-> 0, draws |-> 0, losses |-> 0]]_vars

\* the active Pymon has just finished its second match, and the two records
\* of its ledger differ
C20_Witness ==
    /\ last.op = "round"
    /\ last.outcome \in {"won", "lost", "game_over"}
    /\ Len(Ledger(battles, current_pymon)) = 2
    /\ Ledger(battles, current_pymon)[1] # Ledger(battles, current_pymon)[2]

\* C21: using a magic potion held in the inventory removes it from the
\* inventory and sets the Pymon's immunity flag, and the flag lasts for the
\* next battle only: once a match of that Pymon has been resolved its
\* immunity flag is false again.
C21_PotionImmunity ==
    [][/\ \A n \in ItemInputs :
             LET p == current_pymon
                 held == {k \in DOMAIN inventory[p] :
                             Lower(ItemName(inventory[p][k])) = Lower(n)}
             IN  (/\ last'.op = "use"
                  /\ Lower(n) = Name_magic_potion
                  /\ held # {}
                  /\ UseCmd(TRUE, n)) =>
                     /\ immunity'[p] = TRUE
                     /\ Len(inventory'[p]) = Len(inventory[p]) - 1
                     /\ "potion" \notin Members(inventory'[p])
       /\ Resolves => immunity'[current_pymon] = FALSE]_vars

\* the step belongs to a match: the challenge, a round or the outcome branch
MatchStep == last'.op \in {"challenge", "round", "outcome"}

\* the effects of the outcome branch of a match with final tallies t against
\* opponent o are in place after the step: the capture on a win, the
\* substitution of the first pet or the end of the session on a loss
OutcomeApplied(o, t) ==
    LET self == current_pymon
    IN  IF t.wins >= 2
        THEN /\ ~InSeq(o, creatures'[current_location[self]])
             /\ InSeq(PetOf(o), pets'[self])
        ELSE IF pets[self] # <<>>
        THEN pets'[self] = Tail(pets[self])
        ELSE pc' = "over"

\* the step applies an effect of the outcome branch of a match
OutcomeEffect ==
    /\ MatchStep
    /\ \/ creatures' # creatures
       \/ pets' # pets
       \/ inventory' # inventory
       \/ current_location' # current_location
       \/ pc' = "over"

\* C22 as stated: the battle record is appended only after the outcome branch
\* has completed, so that no state has the record of a match while that
\* match's outcome effects are not applied: whenever a record has just been
\* appended, the capture, the substitution or the end of the session is in
\* place.
C22_RecordAfterOutcome ==
    [][(battles' # battles) =>
          LET o == CHOOSE c \in Objects : c.kind = "creature" /\ c.nick = Appended.opponent
          IN  OutcomeApplied(o, Appended)]_vars

\* C22 amended: the record is appended before the outcome branch runs. The
\* step that appends it appends one record to the challenger's ledger and
\* applies no outcome effect, and every step that applies an outcome effect
\* starts from a state where the record of the match is the last of the
\* challenger's ledger and leaves the ledgers alone.
C22_RecordBeforeOutcome ==
    [][/\ (battles' # battles) =>
             /\ OneRecordAppended
             /\ ~OutcomeEffect
             /\ pc' = "recorded"
       /\ OutcomeEffect =>
             /\ pc = "recorded"
             /\ battles' = battles
             /\ Ledger(battles, current_pymon) # <<>>
             /\ Ledger(battles, current_pymon)[Len(Ledger(battles, current_pymon))] =
                    [opponent |-> match.opponent.nick, wins |-> match.win,
                     draws |-> match.draw, losses |-> match.loss]]_vars

\* the outcome branch of a won match has run after its record was appended
C22_Witness ==
    /\ last.op = "outcome"
    /\ last.outcome = "won"
    /\ Len(Ledger(battles, current_pymon)) = 1
    /\ pets[current_pymon] # <<>>

\* C23: in every state the session's active Pymon appears exactly once
\* across the creature lists of all locations, and the location whose list
\* holds it is the Pymon's current location.
C23_Presence ==
    LET p == current_pymon
    IN  /\ SumOver([l \in Locations |-> Count(p, creatures[l])], Locations) = 1
        /\ current_location[p] \in Locations
        /\ InSeq(p, creatures[current_location[p]])

\* the win and loss tallies w and l are within the bounds of a match
TalliesBounded(w, l) ==
    /\ w \in 0..2
    /\ l \in 0..2
    /\ ~(w = 2 /\ l = 2)
    /\ w + l <= 3

\* C24: at every point of a match the win and loss tallies are at most 2 and
\* never both 2, so that a match has at most 3 decisive rounds; the match is
\* resolved as a win (the opponent is captured) if and only if the win tally
\* is 2 when the loop is left, and then the challenger's energy is above 0.
C24_TallyBounds ==
    [][/\ TalliesBounded(match'.win, match'.loss)
       /\ Resolves =>
             LET self == current_pymon
                 captured == Len(pets'[self]) = Len(pets[self]) + 1
             IN  /\ TalliesBounded(Appended.wins, Appended.losses)
                 /\ captured <=> Appended.wins = 2
                 /\ (last'.outcome = "won") <=> Appended.wins = 2
                 /\ Appended.wins = 2 => energy'[self] > 0]_vars

\* a match of three decisive rounds was resolved as a win
C24_Witness ==
    /\ last.op = "round"
    /\ last.outcome = "won"
    /\ Ledger(battles, current_pymon)[Len(Ledger(battles, current_pymon))].wins = 2
    /\ Ledger(battles, current_pymon)[Len(Ledger(battles, current_pymon))].losses = 1

\* C25: when the active Pymon challenges, at energy 0 or below, an adoptable
\* creature of its location, no round is played, a record with zero wins,
\* draws and losses is appended, the loss branch is taken (with a pet on the
\* bench the first pet leaves the bench and takes over the inventory, with
\* an empty bench the session is over), no energy changes and the opponent
\* stays in the creature list of the location.
C25_DepletedChallenge ==
    [][\A n \in CreatureInputs :
          LET self == current_pymon
              here == creatures[current_location[self]]
              named == {i \in DOMAIN here : here[i].nick = n}
              first == here[CHOOSE i \in named : \A j \in named : i <= j]
              bench == pets[self]
          IN  (/\ last'.op = "challenge"
               /\ energy[self] <= 0
               /\ named # {}
               /\ first # self
               /\ adoptable(first)
               /\ ChallengeCmd(n)) =>
                  /\ pc' # "battle"
                  /\ OneRecordAppended
                  /\ Appended = [opponent |-> n, wins |-> 0, draws |-> 0, losses |-> 0]
                  /\ energy' = energy
                  /\ creatures' = creatures
                  /\ InSeq(first, creatures'[current_location[self]])
                  /\ IF bench = <<>>
                     THEN pc' = "over"
                     ELSE /\ pc' = "menu"
                          /\ pets'[self] = Tail(bench)
                          /\ inventory'[Head(bench)] =
                                 inventory[Head(bench)] \o inventory[self]
                          /\ inventory'[self] = <<>>]_vars

\* a challenge at depleted energy was lost without a round with a pet on the
\* bench
C25_Witness ==
    /\ last.op = "challenge"
    /\ last.outcome = "lost"
    /\ energy[current_pymon] <= 0

\* a challenge at depleted energy ended the session without a round
C25_WitnessOver ==
    /\ last.op = "challenge"
    /\ last.outcome = "game_over"
    /\ energy[current_pymon] <= 0

====
